---- MODULE Spec2Model ----
(***************************************************************************)
(* Interview-session orchestration of the AI Avatar service:               *)
(*   SessionManager (session registry), QuestionService (client of the     *)
(*   remote question source), the video generation cache with its          *)
(*   background worker, and the HTTP / WebSocket handlers of routes.py.    *)
(* Every handler is an asyncio coroutine: the code between two awaits that *)
(* really suspend runs atomically, so each action below is one such        *)
(* segment, and a request's pc names the await it is suspended at.         *)
(***************************************************************************)
EXTENDS Integers, Sequences, FiniteSets, TLC

\* ---------------------------------------------------------------- bounds
MaxSessions == 1      \* session ids that create_session may hand out
MaxReq      == 2      \* HTTP requests in flight at the same time
MaxQid      == 2      \* question rows the remote source may insert
MaxTok      == 2      \* generation tokens that may be issued
MaxAnswers  == 2      \* answers recorded per session
MaxIdleCalls == 2     \* provider generations started per presenter
MaxWords    == 2      \* words of a text given to the speech service
MaxWordLen  == 2      \* characters of a word
MaxDuration == 10     \* total duration of the audio, in quarter milliseconds
MaxClock    == 2      \* the latest time get_timestamp() returns

SessionIds == 1..MaxSessions
Qids       == 1..MaxQid
Tokens     == 1..MaxTok

\* ------------------------------------------------------------- constants
AVATAR_GENERATION_TIMEOUT == 120   \* seconds
AVATAR_POLL_INTERVAL      == 2     \* seconds between status checks

NULL   == "null"      \* Python None in a string-valued field
NoneId == -1          \* answer.get("question_id") is None

\* SessionState
CREATED            == "created"
IN_PROGRESS        == "in_progress"
WAITING_FOR_ANSWER == "waiting_for_answer"
PROCESSING         == "processing"
COMPLETED          == "completed"
EXPIRED            == "expired"

\* AvatarMode
VIDEO      == "video"
AUDIO_ONLY == "audio_only"

AnswerTexts == {"a"}

VARIABLES
  sessions,      \* SessionManager._sessions : session id -> InterviewSession
  next_sid,      \* session ids generated so far (generate_session_id is fresh)
  session_info,  \* QuestionService._session_info : ids mapped to a remote session
  remote_q,      \* remote source: question ids inserted per interview session
  next_qid,      \* remote source: next serial id of interview_chit_chat
  cache,         \* video_generation_cache : generation_id -> job record
  next_tok,      \* generation ids issued so far (uuid4 is fresh)
  jobs,          \* position of the background task of every registered token
  inflight,      \* the HTTP requests suspended at an await (a bag of frames)
  ws,            \* the WebSocket connection
  out,           \* the response or envelope sent by the current step
  configured,    \* avatar_service.is_configured (fixed by the environment)
  clip,          \* _poll_for_clip_result: the poll loop of one submitted clip
  idle_video,    \* _idle_video_cache and the calls that fill it, per presenter
  tts,           \* one call of TTSService.generate_speech: input and result
  now            \* the time get_timestamp() returns

vars == <<sessions, next_sid, session_info, remote_q, next_qid, cache,
          next_tok, jobs, inflight, ws, out, configured, clip, idle_video, tts, now>>

\* ------------------------------------------------------ SessionManager
NewSession == [state |-> CREATED, current_question_id |-> 0, answers |-> <<>>,
               created_at |-> now, updated_at |-> now]

create_session(ss, sid) == [s \in DOMAIN ss \cup {sid} |->
                               IF s = sid THEN NewSession ELSE ss[s]]

get_session(ss, sid) == sid \in DOMAIN ss

update_session_state(ss, sid, st) ==
  IF sid \in DOMAIN ss
  THEN [ss EXCEPT ![sid].state = st, ![sid].updated_at = now]
  ELSE ss

\* an id that is not registered gets a session of its own
set_current_question_upsert(ss, sid, q) ==
  [create_session(ss, sid) EXCEPT ![sid].current_question_id = q]

set_current_question(ss, sid, q) ==
  IF sid \in DOMAIN ss
  THEN [ss EXCEPT ![sid].current_question_id = q, ![sid].updated_at = now]
  ELSE ss

\* an answer to a question that was answered before replaces the earlier one
record_answer_dedup(ss, sid, q, text) ==
  IF sid \notin DOMAIN ss THEN ss
  ELSE IF \E i \in 1..Len(ss[sid].answers) : ss[sid].answers[i].question_id = q
  THEN [ss EXCEPT ![sid].answers =
          [i \in 1..Len(@) |-> IF @[i].question_id = q
                               THEN [question_id |-> q, answer_text |-> text]
                               ELSE @[i]]]
  ELSE [ss EXCEPT ![sid].answers = Append(@, [question_id |-> q, answer_text |-> text])]

\* the newest answer is put in front
record_answer_prepend(ss, sid, q, text) ==
  IF sid \in DOMAIN ss
  THEN [ss EXCEPT ![sid].answers = <<[question_id |-> q, answer_text |-> text]>> \o @]
  ELSE ss

record_answer(ss, sid, q, text) ==
  IF sid \in DOMAIN ss
  THEN [ss EXCEPT ![sid].answers = Append(@, [question_id |-> q, answer_text |-> text]),
                  ![sid].updated_at = now]
  ELSE ss

\* the session is left in the state it had
complete_session_unset(ss, sid) == ss

complete_session(ss, sid) == update_session_state(ss, sid, COMPLETED)

delete_session(ss, sid) == [s \in DOMAIN ss \ {sid} |-> ss[s]]

EmptyFn == [x \in {} |-> 0]

NoSummary == [present |-> FALSE, state |-> NULL, questions_answered |-> 0,
              completed_at |-> NoneId]

get_session_summary(ss, sid) ==
  IF sid \in DOMAIN ss
  THEN [present |-> TRUE, state |-> ss[sid].state,
        questions_answered |-> Len(ss[sid].answers),
        completed_at |-> IF ss[sid].state = COMPLETED THEN ss[sid].updated_at
                         ELSE NoneId]
  ELSE NoSummary

\* ------------------------------------------------------------ responses
NoSummaryTaken == [state |-> NULL, questions_answered |-> 0, completed_at |-> NoneId]

\* the frame of a handler: its arguments and locals, and (touched) what its
\* own steps have changed so far: "session" (added to the registry), "state",
\* "current_question_id", "answers" of its session, "source" (the question
\* source's rows for its session)
Frame(op, sid, qid, text) ==
  [op |-> op, pc |-> "begin", sid |-> sid, qid |-> qid, text |-> text,
   question |-> 0, summary |-> NoSummaryTaken, touched |-> {}]

\* what one step of a handler changes of session sid, from registry ss to ss2
Diff(ss, ss2, sid) ==
  IF sid \notin DOMAIN ss2 THEN {}
  ELSE IF sid \notin DOMAIN ss THEN {"session"}
  ELSE (IF ss2[sid].state # ss[sid].state THEN {"state"} ELSE {})
       \cup (IF ss2[sid].current_question_id # ss[sid].current_question_id
             THEN {"current_question_id"} ELSE {})
       \cup (IF ss2[sid].answers # ss[sid].answers THEN {"answers"} ELSE {})

Touch(rq, ss2) == [rq EXCEPT !.touched = @ \cup Diff(sessions, ss2, rq.sid)]

\* what a step sends: the frame of the handler that sent it and the payload
NoOut == [kind |-> "none", code |-> 0, cause |-> NULL, from |-> NULL, op |-> NULL,
          sid |-> 0, touched |-> {},
          question_id |-> 0, avatar_mode |-> NULL, video_status |-> NULL,
          generation_id |-> 0, video_url |-> NULL, error |-> NULL,
          questions_answered |-> 0, summary_state |-> NULL, completed_at |-> NoneId,
          word_timings |-> NULL, audio_of |-> 0, avatar_image_url |-> NULL,
          timestamp |-> NoneId]

Reply(rq, kind, code, cause) ==
  [NoOut EXCEPT !.kind = kind, !.code = code, !.cause = cause, !.from = rq.pc,
                !.op = rq.op, !.sid = rq.sid, !.touched = rq.touched]

\* raise HTTPException(status_code=code), or an exception that escapes the handler
ErrorResp(rq, code, cause) == Reply(rq, "error", code, cause)

\* get_interview_complete_response: complete_session, then the summary
CompleteResp(rq, ss, why) ==
  LET sm == get_session_summary(complete_session(ss, rq.sid), rq.sid)
  IN  [Reply(rq, "complete", 200, why) EXCEPT
         !.questions_answered = IF sm.present THEN sm.questions_answered ELSE 0,
         !.summary_state = sm.state,
         !.completed_at = sm.completed_at]

\* the speech is synthesized for whatever the session's current question is
\* when the response is built
SpeechOfCurrentQuestion(rq) ==
  IF rq.sid \in DOMAIN sessions THEN sessions[rq.sid].current_question_id ELSE 0

\* tts_result = await tts_service.generate_speech(question.text): the question
\* whose text was synthesized is the handler's local question
SpeechOf(rq) == rq.question

QuestionResp(rq, mode, vstatus, tok, url, timings, image) ==
  [Reply(rq, "question", 200, NULL) EXCEPT
         !.question_id = rq.question, !.avatar_mode = mode,
         !.video_status = vstatus, !.generation_id = tok, !.video_url = url,
         !.word_timings = timings, !.audio_of = SpeechOf(rq),
         !.avatar_image_url = image]

\* --------------------------------------------- remote question source
\* rows of interview_chit_chat: send_ans finds the question or answers 404
Issued == UNION {{remote_q[s][i] : i \in 1..Len(remote_q[s])} : s \in SessionIds}

\* what QuestionService.submit_answer can return for this question id
SubmitOutcomes(q) == IF q \in Issued THEN {TRUE, FALSE} ELSE {FALSE}

\* the ways QuestionService.get_next_question yields None after calling the source
NoneCauses == {"success_false", "not_found"}

\* ----------------------------------------------------- avatar provider
\* the AvatarResult values generate_avatar_video can return when configured
AvatarResults ==
  { [success |-> TRUE,  video_url |-> "url", error_message |-> NULL],
    [success |-> TRUE,  video_url |-> NULL,  error_message |-> NULL],
    [success |-> FALSE, video_url |-> NULL,  error_message |-> "msg"],
    [success |-> FALSE, video_url |-> NULL,  error_message |-> NULL] }

\* ---------------------------------------------------- video job records
PendingJob(sid, q) ==
  [status |-> "pending", session_id |-> sid, question_id |-> q,
   started_at |-> "ts", video_url |-> NULL, error |-> NULL, completed_at |-> NULL]

JobCompleted(rec, res) ==
  [rec EXCEPT !.status = "completed", !.video_url = res.video_url, !.completed_at = "ts"]

\* the failure is written without its completion timestamp
JobFailedUnstamped(rec, res) ==
  [rec EXCEPT !.status = "failed",
              !.error = IF res.error_message # NULL THEN res.error_message
                        ELSE "Video generation failed"]

JobFailed(rec, res) ==
  [rec EXCEPT !.status = "failed",
              !.error = IF res.error_message # NULL THEN res.error_message
                        ELSE "Video generation failed",
              !.completed_at = "ts"]

\* success is trusted without looking at the URL
JobResultTrustsSuccess(rec, res) ==
  IF res.success THEN [rec EXCEPT !.status = "completed", !.video_url = res.video_url,
                                    !.completed_at = "ts"]
  ELSE [rec EXCEPT !.status = "failed", !.error = "msg", !.completed_at = "ts"]

\* generate_video_background after generate_avatar_video returned
JobResult(rec, res) ==
  IF res.success /\ res.video_url # NULL THEN JobCompleted(rec, res) ELSE JobFailed(rec, res)

\* ------------------------------------------------------------- handlers
AsyncOps  == {"start", "generate", "answer_async"}
SyncOps   == {"question", "answer"}
AnswerOps == {"answer", "answer_async"}

\* a job is started whether or not the provider is configured
should_generate_video_always == TRUE

\* should_generate_video = avatar_service.is_configured, in the three async
\* handlers
should_generate_video == configured

\* every handler waits for the video
AwaitsAvatarAlways(op) == configured

\* generate_question_response awaits generate_avatar_video in video mode;
\* the async handlers hand the text to a background task instead
AwaitsAvatar(op) == op \in SyncOps /\ configured

\* inflight maps every suspended frame to the number of requests suspended
\* with exactly that frame
Suspended == DOMAIN inflight

RECURSIVE Count(_, _)
Count(b, S) == IF S = {} THEN 0
               ELSE LET e == CHOOSE x \in S : TRUE IN b[e] + Count(b, S \ {e})

\* a new request is accepted while a worker is free
Accept == Count(inflight, DOMAIN inflight) < MaxReq

With(b, e) == IF e \in DOMAIN b THEN [b EXCEPT ![e] = @ + 1]
              ELSE [x \in DOMAIN b \cup {e} |-> IF x = e THEN 1 ELSE b[x]]

Without(b, e) == IF e \notin DOMAIN b THEN b
                 ELSE IF b[e] > 1 THEN [b EXCEPT ![e] = @ - 1]
                 ELSE [x \in DOMAIN b \ {e} |-> b[x]]

\* the handler, whose frame was rq, suspends with frame nw at the await pc
Suspend(rq, nw, pc) ==
  /\ inflight' = With(Without(inflight, rq), [nw EXCEPT !.pc = pc])
  /\ out' = NoOut

\* the handler returns or raises: its frame is gone and the response is sent
Respond(rq, resp) ==
  /\ inflight' = Without(inflight, rq)
  /\ out' = resp

\* question_service.get_next_question is called with the registry in state ss:
\* without a mapping it returns None at once and the handler goes on to
\* get_interview_complete_response; with a mapping it awaits the source
CallGetNextQuestion(rq, ss) ==
  IF rq.sid \in session_info
  THEN /\ sessions' = ss
       /\ Suspend(rq, Touch(rq, ss), "gen_ques")
  ELSE /\ sessions' = complete_session(ss, rq.sid)
       /\ Respond(rq, CompleteResp(Touch(rq, complete_session(ss, rq.sid)), ss,
                                   "no_mapping"))

\* POST /interview/start up to the await of question_service.start_session
StartInterview ==
  /\ Accept
  /\ next_sid <= MaxSessions
  /\ sessions' = create_session(sessions, next_sid)
  /\ next_sid' = next_sid + 1
  /\ LET rq == Frame("start", next_sid, 0, NULL) IN
       Suspend(rq, Touch(rq, create_session(sessions, next_sid)), "start_session")
  /\ UNCHANGED <<session_info, remote_q, next_qid, cache, next_tok, jobs, ws,
                 configured, clip, idle_video, tts, now>>

\* start_session returned or raised; on success the handler runs on to the
\* await inside get_next_question
StartSessionReturns(rq) ==
  /\ rq.pc = "start_session"
  /\ \E ok \in BOOLEAN :
       IF ok
       THEN /\ session_info' = session_info \cup {rq.sid}
            /\ sessions' = update_session_state(sessions, rq.sid, IN_PROGRESS)
            /\ Suspend(rq, Touch(rq, update_session_state(sessions, rq.sid, IN_PROGRESS)),
                       "gen_ques")
       ELSE /\ Respond(rq, ErrorResp(rq, 500, "source_raised"))
            /\ UNCHANGED <<sessions, session_info>>
  /\ UNCHANGED <<next_sid, remote_q, next_qid, cache, next_tok, jobs, ws,
                 configured, clip, idle_video, tts, now>>

\* GET /interview/{id}/question and POST /interview/{id}/question/generate
FetchQuestion(op, sid) ==
  /\ Accept
  /\ op \in {"question", "generate"}
  /\ IF ~get_session(sessions, sid)
     THEN /\ Respond(Frame(op, sid, 0, NULL),
                     ErrorResp(Frame(op, sid, 0, NULL), 404, "session_not_found"))
          /\ UNCHANGED sessions
     ELSE CallGetNextQuestion(Frame(op, sid, 0, NULL), sessions)
  /\ UNCHANGED <<next_sid, session_info, remote_q, next_qid, cache, next_tok,
                 jobs, ws, configured, clip, idle_video, tts, now>>

\* an answer without question id is taken like any other
question_id_never_none(qid) == FALSE

\* question_id = answer.get("question_id"); if question_id is None
question_id_is_none(qid) == qid = NoneId

\* the answer is passed on to the source without looking the session up
SubmitAnswerUnchecked(op, sid, qid, text) ==
  /\ Accept
  /\ op \in AnswerOps
  /\ LET rq == Frame(op, sid, qid, text) IN
       IF qid = NoneId
       THEN Respond(rq, ErrorResp(rq, 400, "question_id_required"))
       ELSE Suspend(rq, rq, "send_ans")
  /\ UNCHANGED <<sessions, next_sid, session_info, remote_q, next_qid, cache,
                 next_tok, jobs, ws, configured, clip, idle_video, tts, now>>

\* POST /interview/{id}/answer and /answer/async up to the await of submit_answer
SubmitAnswer(op, sid, qid, text) ==
  /\ Accept
  /\ op \in AnswerOps
  /\ LET rq == Frame(op, sid, qid, text) IN
       IF ~get_session(sessions, sid)
       THEN Respond(rq, ErrorResp(rq, 404, "session_not_found"))
       ELSE IF question_id_is_none(qid)
       THEN Respond(rq, ErrorResp(rq, 400, "question_id_required"))
       ELSE Suspend(rq, rq, "send_ans")
  /\ UNCHANGED <<sessions, next_sid, session_info, remote_q, next_qid, cache,
                 next_tok, jobs, ws, configured, clip, idle_video, tts, now>>

\* the answer is recorded before the outcome of submit_answer is looked at
SendAnsReturnsRecordsFirst(rq) ==
  /\ rq.pc = "send_ans"
  /\ rq.sid \in DOMAIN sessions => Len(sessions[rq.sid].answers) < MaxAnswers
  /\ \E ok \in SubmitOutcomes(rq.qid) :
       IF ok
       THEN CallGetNextQuestion(rq,
              update_session_state(
                record_answer(sessions, rq.sid, rq.qid, rq.text),
                rq.sid, PROCESSING))
       ELSE /\ Respond(rq, ErrorResp(rq, 500, "submit_failed"))
            /\ sessions' = record_answer(sessions, rq.sid, rq.qid, rq.text)
  /\ UNCHANGED <<next_sid, session_info, remote_q, next_qid, cache, next_tok,
                 jobs, ws, configured, clip, idle_video, tts, now>>

\* submit_answer returned: record the answer locally, then ask for the next question
SendAnsReturns(rq) ==
  /\ rq.pc = "send_ans"
  /\ \E ok \in SubmitOutcomes(rq.qid) :
       IF ok
       THEN /\ rq.sid \in DOMAIN sessions => Len(sessions[rq.sid].answers) < MaxAnswers
            /\ CallGetNextQuestion(rq,
                 update_session_state(
                   record_answer(sessions, rq.sid, rq.qid, rq.text),
                   rq.sid, PROCESSING))
       ELSE /\ Respond(rq, ErrorResp(rq, 500, "submit_failed"))
            /\ UNCHANGED sessions
  /\ UNCHANGED <<next_sid, session_info, remote_q, next_qid, cache, next_tok,
                 jobs, ws, configured, clip, idle_video, tts, now>>

\* the answer of GET /api/theai/gen_ques as QuestionService.get_next_question sees it
GenQuesReturns(rq) ==
  /\ rq.pc = "gen_ques"
  /\ \/ /\ next_qid <= MaxQid            \* 200, success: a new question row
        /\ remote_q' = [remote_q EXCEPT ![rq.sid] = Append(@, next_qid)]
        /\ next_qid' = next_qid + 1
        /\ LET ss2 == update_session_state(
                        set_current_question(sessions, rq.sid, next_qid),
                        rq.sid, WAITING_FOR_ANSWER)
           IN /\ sessions' = ss2
              /\ Suspend(rq, [Touch(rq, ss2) EXCEPT !.question = next_qid,
                                                   !.touched = @ \cup {"source"}],
                         "tts")
     \/ /\ \E why \in NoneCauses :       \* 200 with success=false, or 404
             IF rq.op = "start"
             THEN /\ Respond(rq, ErrorResp(rq, 500, "no_first_question"))
                  /\ UNCHANGED sessions
             ELSE /\ sessions' = complete_session(sessions, rq.sid)
                  /\ Respond(rq, CompleteResp(
                        Touch(rq, complete_session(sessions, rq.sid)), sessions, why))
        /\ UNCHANGED <<remote_q, next_qid>>
     \/ /\ Respond(rq, ErrorResp(rq, 500, "source_raised"))  \* raised
        /\ UNCHANGED <<sessions, remote_q, next_qid>>
  /\ UNCHANGED <<next_sid, session_info, cache, next_tok, jobs, ws, configured, clip, idle_video, tts, now>>

\* word_timings of the async responses: only question/generate carries the key
AsyncTimings(op) == IF op = "generate" THEN "timings" ELSE NULL

\* generate_question_response / the async handlers after generate_speech:
\* the synthesized audio is there, or generate_speech raised
TtsReturns(rq) ==
  /\ rq.pc = "tts"
  /\ \/ /\ Respond(rq, ErrorResp(rq, 500, "tts_failed"))
        /\ UNCHANGED <<cache, next_tok, jobs>>
     \/ /\ AwaitsAvatar(rq.op)
        /\ Suspend(rq, rq, "avatar")
        /\ UNCHANGED <<cache, next_tok, jobs>>
     \/ /\ ~AwaitsAvatar(rq.op)
        /\ rq.op \in AsyncOps
        /\ IF should_generate_video
           THEN /\ next_tok <= MaxTok
                /\ cache' = [t \in DOMAIN cache \cup {next_tok} |->
                               IF t = next_tok
                               THEN PendingJob(rq.sid, rq.question)
                               ELSE cache[t]]
                /\ jobs' = [t \in DOMAIN jobs \cup {next_tok} |->
                               IF t = next_tok THEN "queued" ELSE jobs[t]]
                /\ next_tok' = next_tok + 1
                /\ Respond(rq, QuestionResp(rq, VIDEO, "generating", next_tok,
                                            NULL, AsyncTimings(rq.op), "image"))
           ELSE /\ Respond(rq, QuestionResp(rq, AUDIO_ONLY, "disabled", 0,
                                            NULL, AsyncTimings(rq.op), "image"))
                /\ UNCHANGED <<cache, next_tok, jobs>>
     \/ /\ ~AwaitsAvatar(rq.op)
        /\ rq.op \in SyncOps
        /\ Respond(rq, QuestionResp(rq, AUDIO_ONLY, NULL, 0, NULL, NULL, "image"))
        /\ UNCHANGED <<cache, next_tok, jobs>>
  /\ UNCHANGED <<sessions, next_sid, session_info, remote_q, next_qid, ws,
                 configured, clip, idle_video, tts, now>>

\* the result's success flag decides the mode, whatever its video_url is
AvatarReturnsTrustsSuccess(rq) ==
  /\ rq.pc = "avatar"
  /\ \E res \in AvatarResults :
       Respond(rq,
         IF res.success
         THEN QuestionResp(rq, VIDEO, NULL, 0, res.video_url, NULL, NULL)
         ELSE QuestionResp(rq, AUDIO_ONLY, NULL, 0, NULL, NULL, "image"))
  /\ UNCHANGED <<sessions, next_sid, session_info, remote_q, next_qid, cache,
                 next_tok, jobs, ws, configured, clip, idle_video, tts, now>>

\* generate_question_response after generate_avatar_video returned
AvatarReturns(rq) ==
  /\ rq.pc = "avatar"
  /\ \E res \in AvatarResults :
       Respond(rq,
         IF res.success /\ res.video_url # NULL
         THEN QuestionResp(rq, VIDEO, NULL, 0, res.video_url, NULL, NULL)
         ELSE QuestionResp(rq, AUDIO_ONLY, NULL, 0, NULL, NULL, "image"))
  /\ UNCHANGED <<sessions, next_sid, session_info, remote_q, next_qid, cache,
                 next_tok, jobs, ws, configured, clip, idle_video, tts, now>>

\* GET /interview/{id}/status
GetSessionStatus(sid) ==
  /\ Accept
  /\ LET rq == Frame("status", sid, 0, NULL) IN
       IF ~get_session(sessions, sid)
       THEN Respond(rq, ErrorResp(rq, 404, "session_not_found"))
       ELSE Respond(rq, [Reply(rq, "status", 200, NULL) EXCEPT
                           !.summary_state = sessions[sid].state,
                           !.questions_answered = Len(sessions[sid].answers)])
  /\ UNCHANGED <<sessions, next_sid, session_info, remote_q, next_qid, cache,
                 next_tok, jobs, ws, configured, clip, idle_video, tts, now>>

\* the summary end_interview took before the cleanup
EndedResp(rq, sm) ==
  [Reply(rq, "ended", 200, NULL) EXCEPT
     !.summary_state = sm.state, !.questions_answered = sm.questions_answered,
     !.completed_at = sm.completed_at]

\* POST /interview/{id}: end_session returns None at once without a mapping
EndInterview(sid) ==
  /\ Accept
  /\ LET rq == Frame("end", sid, 0, NULL) IN
       IF ~get_session(sessions, sid)
       THEN /\ Respond(rq, ErrorResp(rq, 404, "session_not_found"))
            /\ UNCHANGED sessions
       ELSE IF sid \in session_info
       THEN /\ Suspend(rq, [rq EXCEPT !.summary =
                                   [state |-> sessions[sid].state,
                                    questions_answered |-> Len(sessions[sid].answers),
                                    completed_at |->
                                       get_session_summary(sessions, sid).completed_at]],
                       "end_session")
            /\ UNCHANGED sessions
       ELSE /\ sessions' = delete_session(sessions, sid)
            /\ Respond(rq, EndedResp(rq, get_session_summary(sessions, sid)))
  /\ UNCHANGED <<next_sid, session_info, remote_q, next_qid, cache, next_tok,
                 jobs, ws, configured, clip, idle_video, tts, now>>

\* ending a session also clears the job records issued for it
EndSessionReturnsDropsJobs(rq) ==
  /\ rq.pc = "end_session"
  /\ \E ok \in BOOLEAN :
       session_info' = IF ok THEN session_info \ {rq.sid} ELSE session_info
  /\ sessions' = delete_session(sessions, rq.sid)
  /\ cache' = [t \in {u \in DOMAIN cache : cache[u].session_id # rq.sid} |-> cache[t]]
  /\ jobs' = [t \in {u \in DOMAIN jobs : cache[u].session_id # rq.sid} |-> jobs[t]]
  /\ Respond(rq, EndedResp(rq, rq.summary))
  /\ UNCHANGED <<next_sid, remote_q, next_qid, next_tok, ws, configured, clip, idle_video, tts, now>>

\* end_session returned: the mapping is dropped only when the source confirmed
EndSessionReturns(rq) ==
  /\ rq.pc = "end_session"
  /\ \E ok \in BOOLEAN :
       session_info' = IF ok THEN session_info \ {rq.sid} ELSE session_info
  /\ sessions' = delete_session(sessions, rq.sid)
  /\ Respond(rq, EndedResp(rq, rq.summary))
  /\ UNCHANGED <<next_sid, remote_q, next_qid, cache, next_tok, jobs, ws,
                 configured, clip, idle_video, tts, now>>

\* a poll of a job that is still pending marks it as processing
GetVideoStatusTouches(tok) ==
  /\ Accept
  /\ LET rq == Frame("poll", 0, 0, NULL) IN
       IF tok \notin DOMAIN cache
       THEN /\ Respond(rq, [ErrorResp(rq, 404, "generation_not_found") EXCEPT
                              !.generation_id = tok])
            /\ UNCHANGED cache
       ELSE /\ Respond(rq, [Reply(rq, "video_status", 200, NULL) EXCEPT
                              !.generation_id = tok,
                              !.video_status = cache[tok].status,
                              !.video_url = cache[tok].video_url,
                              !.error = cache[tok].error])
            /\ cache' = IF cache[tok].status = "pending"
                        THEN [cache EXCEPT ![tok].status = "processing"]
                        ELSE cache
  /\ UNCHANGED <<sessions, next_sid, session_info, remote_q, next_qid,
                 next_tok, jobs, ws, configured, clip, idle_video, tts, now>>

\* GET /interview/video/status/{generation_id}
GetVideoStatus(tok) ==
  /\ Accept
  /\ LET rq == Frame("poll", 0, 0, NULL) IN
       IF tok \notin DOMAIN cache
       THEN Respond(rq, [ErrorResp(rq, 404, "generation_not_found") EXCEPT
                           !.generation_id = tok])
       ELSE Respond(rq, [Reply(rq, "video_status", 200, NULL) EXCEPT
                           !.generation_id = tok,
                           !.video_status = cache[tok].status,
                           !.video_url = cache[tok].video_url,
                           !.error = cache[tok].error])
  /\ UNCHANGED <<sessions, next_sid, session_info, remote_q, next_qid, cache,
                 next_tok, jobs, ws, configured, clip, idle_video, tts, now>>

\* ------------------------------------------------------ background worker
\* the background task gives up when the session it belongs to is gone
JobStartNeedsSession(t) ==
  /\ t \in DOMAIN jobs
  /\ jobs[t] = "queued"
  /\ get_session(sessions, cache[t].session_id)
  /\ cache' = [cache EXCEPT ![t].status = "processing"]
  /\ jobs' = [jobs EXCEPT ![t] = "avatar"]
  /\ out' = NoOut
  /\ UNCHANGED <<sessions, next_sid, session_info, remote_q, next_qid,
                 next_tok, inflight, ws, configured, clip, idle_video, tts, now>>

\* generate_video_background up to the await of generate_avatar_video
JobStart(t) ==
  /\ t \in DOMAIN jobs
  /\ jobs[t] = "queued"
  /\ cache' = [cache EXCEPT ![t].status = "processing"]
  /\ jobs' = [jobs EXCEPT ![t] = "avatar"]
  /\ out' = NoOut
  /\ UNCHANGED <<sessions, next_sid, session_info, remote_q, next_qid,
                 next_tok, inflight, ws, configured, clip, idle_video, tts, now>>

\* a failed job also ends the session it belongs to
JobFinishEndsSession(t) ==
  /\ t \in DOMAIN jobs
  /\ jobs[t] = "avatar"
  /\ \E res \in AvatarResults :
       /\ cache' = [cache EXCEPT ![t] = JobResult(@, res)]
       /\ sessions' = IF res.success /\ res.video_url # NULL THEN sessions
                      ELSE delete_session(sessions, cache[t].session_id)
  /\ jobs' = [jobs EXCEPT ![t] = "done"]
  /\ out' = NoOut
  /\ UNCHANGED <<next_sid, session_info, remote_q, next_qid,
                 next_tok, inflight, ws, configured, clip, idle_video, tts, now>>

\* generate_avatar_video returned its AvatarResult
JobFinish(t) ==
  /\ t \in DOMAIN jobs
  /\ jobs[t] = "avatar"
  /\ \E res \in AvatarResults : cache' = [cache EXCEPT ![t] = JobResult(@, res)]
  /\ jobs' = [jobs EXCEPT ![t] = "done"]
  /\ out' = NoOut
  /\ UNCHANGED <<sessions, next_sid, session_info, remote_q, next_qid,
                 next_tok, inflight, ws, configured, clip, idle_video, tts, now>>

\* ------------------------------------------------------------ poll loop
\* _poll_for_clip_result(clip_id): pc is the await the coroutine is at,
\* elapsed its counter, polls the GET requests answered so far, last the
\* outcome of the latest one
NoResult == [success |-> FALSE, video_url |-> NULL, error_message |-> NULL]

\* created is what _create_clip brought, avatar the AvatarResult of
\* generate_avatar_video, job the record of the background task's job
NoClip == [pc |-> "idle", elapsed |-> 0, polls |-> 0, last |-> NULL,
           result |-> NoResult, created |-> NULL, avatar |-> NoResult,
           job |-> PendingJob(1, 1)]

\* what one GET /clips/{id} can bring: status done, status error, another
\* status, a response that is not 200, or an exception of the HTTP client
PollReplies == {"done", "error", "processing", "non200", "raises"}

\* data.get("result_url")
ResultUrls == {"url", NULL}

TimeoutResult ==
  [success |-> FALSE, video_url |-> NULL, error_message |-> "Timeout"]

\* while elapsed < timeout
PollLoopHead(c) ==
  IF c.elapsed < AVATAR_GENERATION_TIMEOUT
  THEN [c EXCEPT !.pc = "get"]
  ELSE [c EXCEPT !.pc = "returned", !.result = TimeoutResult]

\* timeout = AVATAR_GENERATION_TIMEOUT; elapsed = 0; the first test of the loop
PollBegin ==
  /\ clip.pc = "idle"
  /\ clip' = PollLoopHead([clip EXCEPT !.elapsed = 0])
  /\ out' = NoOut
  /\ UNCHANGED <<sessions, next_sid, session_info, remote_q, next_qid, cache,
                 next_tok, jobs, inflight, ws, configured, idle_video, tts, now>>

\* the reply to one GET, seen by the loop body
PollReply(c, r, url) ==
  CASE r = "done" ->
         [c EXCEPT !.pc = "returned",
                   !.result = [success |-> TRUE, video_url |-> url,
                               error_message |-> NULL]]
    [] r = "error" ->
         [c EXCEPT !.pc = "returned",
                   !.result = [success |-> FALSE, video_url |-> NULL,
                               error_message |-> "msg"]]
    [] r = "raises" -> [c EXCEPT !.pc = "raised"]
    [] OTHER -> [c EXCEPT !.pc = "sleep"]

\* a response that is not 200 goes on to the next request at once, without
\* the sleep and without counting the interval
PollGetRetriesAtOnce ==
  /\ clip.pc = "get"
  /\ \E r \in PollReplies, url \in ResultUrls :
       LET c == [clip EXCEPT !.polls = @ + 1, !.last = r] IN
       clip' = IF r = "non200" THEN c ELSE PollReply(c, r, url)
  /\ out' = NoOut
  /\ UNCHANGED <<sessions, next_sid, session_info, remote_q, next_qid, cache,
                 next_tok, jobs, inflight, ws, configured, idle_video, tts, now>>

\* the GET of one iteration is answered (or the HTTP client raises)
PollGet ==
  /\ clip.pc = "get"
  /\ \E r \in PollReplies, url \in ResultUrls :
       clip' = PollReply([clip EXCEPT !.polls = @ + 1, !.last = r], r, url)
  /\ out' = NoOut
  /\ UNCHANGED <<sessions, next_sid, session_info, remote_q, next_qid, cache,
                 next_tok, jobs, inflight, ws, configured, idle_video, tts, now>>

\* asyncio.sleep(AVATAR_POLL_INTERVAL) is over: elapsed += AVATAR_POLL_INTERVAL
\* and the test of the loop
PollSleep ==
  /\ clip.pc = "sleep"
  /\ clip' = PollLoopHead([clip EXCEPT !.elapsed = @ + AVATAR_POLL_INTERVAL])
  /\ out' = NoOut
  /\ UNCHANGED <<sessions, next_sid, session_info, remote_q, next_qid, cache,
                 next_tok, jobs, inflight, ws, configured, idle_video, tts, now>>

\* ------------------------------------------------- generate_avatar_video
\* AvatarResult(success=False, error_message=msg)
AvatarFailure(msg) ==
  [success |-> FALSE, video_url |-> NULL, error_message |-> msg]

\* _create_clip: the clip id, None (a status other than 200 and 201, or an
\* exception of the request), or an exception of _get_session
CreateOutcomes == {"id", "none", "raises"}

\* generate_video_background sets the job processing and calls
\* generate_avatar_video, which returns at once when no key is configured
BackgroundStart ==
  /\ clip.pc = "idle"
  /\ clip' = IF ~configured
             THEN [clip EXCEPT !.pc = "avatar_returned",
                               !.job.status = "processing",
                               !.avatar = AvatarFailure("not configured")]
             ELSE [clip EXCEPT !.pc = "create", !.job.status = "processing"]
  /\ out' = NoOut
  /\ UNCHANGED <<sessions, next_sid, session_info, remote_q, next_qid, cache,
                 next_tok, jobs, inflight, ws, configured, idle_video, tts, now>>

\* _create_clip returned or raised; with a clip id the poll loop begins
CreateClip ==
  /\ clip.pc = "create"
  /\ \E r \in CreateOutcomes :
       LET c == [clip EXCEPT !.created = r] IN
       clip' = CASE r = "id" -> PollLoopHead([c EXCEPT !.elapsed = 0])
                 [] r = "none" ->
                      [c EXCEPT !.pc = "avatar_returned",
                                !.avatar = AvatarFailure("Failed to create clip request")]
                 [] OTHER ->
                      [c EXCEPT !.pc = "avatar_returned",
                                !.avatar = AvatarFailure("exception")]
  /\ out' = NoOut
  /\ UNCHANGED <<sessions, next_sid, session_info, remote_q, next_qid, cache,
                 next_tok, jobs, inflight, ws, configured, idle_video, tts, now>>

\* an exception of the poll loop is answered by a result without a message
AvatarReturnDropsMessage ==
  /\ clip.pc \in {"returned", "raised"}
  /\ clip' = [clip EXCEPT !.pc = "avatar_returned", !.avatar = clip.result]
  /\ out' = NoOut
  /\ UNCHANGED <<sessions, next_sid, session_info, remote_q, next_qid, cache,
                 next_tok, jobs, inflight, ws, configured, idle_video, tts, now>>

\* _poll_for_clip_result returned its result, or raised: asyncio.TimeoutError
\* and every other Exception are turned into a failure
AvatarReturn ==
  /\ clip.pc \in {"returned", "raised"}
  /\ IF clip.pc = "returned"
     THEN clip' = [clip EXCEPT !.pc = "avatar_returned", !.avatar = clip.result]
     ELSE \E msg \in {"Avatar generation timed out", "exception"} :
            clip' = [clip EXCEPT !.pc = "avatar_returned",
                                 !.avatar = AvatarFailure(msg)]
  /\ out' = NoOut
  /\ UNCHANGED <<sessions, next_sid, session_info, remote_q, next_qid, cache,
                 next_tok, jobs, inflight, ws, configured, idle_video, tts, now>>

\* generate_video_background writes the outcome into the job record
BackgroundFinish ==
  /\ clip.pc = "avatar_returned"
  /\ clip' = [clip EXCEPT !.pc = "finished", !.job = JobResult(@, clip.avatar)]
  /\ out' = NoOut
  /\ UNCHANGED <<sessions, next_sid, session_info, remote_q, next_qid, cache,
                 next_tok, jobs, inflight, ws, configured, idle_video, tts, now>>

\* ----------------------------------------------------------- idle video
\* generate_idle_video: per presenter, cached is _idle_video_cache[cache_key]
\* (NULL: no such key), awaiting the calls suspended at generate_avatar_video,
\* started / failed the provider generations begun / ended without a URL,
\* forced whether a call with force_regenerate was made
Presenters == {"default", "other"}

NoIdleVideo == [cached |-> NULL, awaiting |-> 0, started |-> 0, failed |-> 0,
                forced |-> FALSE]

\* the AvatarResult a call of generate_idle_video returns
IdleReturn(presenter, how, url) ==
  [NoOut EXCEPT !.kind = "idle_result", !.op = presenter,
                !.cause = how, !.video_url = url]

\* generate_idle_video up to its return or to the await of generate_avatar_video
IdleCall(presenter, force_regenerate) ==
  /\ LET iv == idle_video[presenter] IN
       IF ~force_regenerate /\ iv.cached # NULL
       THEN /\ out' = IdleReturn(presenter, "cached", iv.cached)
            /\ UNCHANGED idle_video
       ELSE IF ~configured
       THEN /\ out' = IdleReturn(presenter, "unconfigured", NULL)
            /\ idle_video' = [idle_video EXCEPT
                                ![presenter].forced = @ \/ force_regenerate]
       ELSE /\ iv.awaiting < MaxReq
            /\ iv.started < MaxIdleCalls
            /\ idle_video' = [idle_video EXCEPT
                                ![presenter].awaiting = @ + 1,
                                ![presenter].started = @ + 1,
                                ![presenter].forced = @ \/ force_regenerate]
            /\ out' = NoOut
  /\ UNCHANGED <<sessions, next_sid, session_info, remote_q, next_qid, cache,
                 next_tok, jobs, inflight, ws, configured, clip, tts, now>>

\* generate_avatar_video returned to generate_idle_video
IdleGenerated(presenter) ==
  /\ idle_video[presenter].awaiting > 0
  /\ \E res \in AvatarResults :
       IF res.success /\ res.video_url # NULL
       THEN /\ idle_video' = [idle_video EXCEPT ![presenter].awaiting = @ - 1,
                                                ![presenter].cached = res.video_url]
            /\ out' = IdleReturn(presenter, "generated", res.video_url)
       ELSE /\ idle_video' = [idle_video EXCEPT ![presenter].awaiting = @ - 1,
                                                ![presenter].failed = @ + 1]
            /\ out' = IdleReturn(presenter, "failed", NULL)
  /\ UNCHANGED <<sessions, next_sid, session_info, remote_q, next_qid, cache,
                 next_tok, jobs, inflight, ws, configured, clip, tts, now>>

\* ------------------------------------------------------------- WebSocket
PingTimestamps == {NoneId, 1}

NoWs == [pc |-> "unconnected", sid |-> 0]

\* send_message(websocket, type, data)
Envelope(type, code) ==
  [NoOut EXCEPT !.kind = type, !.cause = code, !.op = "ws", !.sid = ws.sid]

\* accept, create_session, send session_info. question_service.start_session
\* is called without await: the coroutine never runs and no mapping is made
WsConnect ==
  /\ ws.pc = "unconnected"
  /\ next_sid <= MaxSessions
  /\ sessions' = create_session(sessions, next_sid)
  /\ next_sid' = next_sid + 1
  /\ ws' = [pc |-> "open", sid |-> next_sid]
  /\ out' = [Envelope("session_info", NULL) EXCEPT !.sid = next_sid]
  /\ UNCHANGED <<session_info, remote_q, next_qid, cache, next_tok, jobs,
                 inflight, configured, clip, idle_video, tts, now>>

\* send_next_question: get_next_question is called without await, so
\* question is a coroutine object, it is not None, and question.id raises
\* AttributeError, which interview_session catches
SendNextQuestionRaises ==
  /\ ws' = [ws EXCEPT !.pc = "failing"]
  /\ out' = NoOut

\* {type: start}: handle_start_interview
WsStart ==
  /\ ws.pc = "open"
  /\ IF ~get_session(sessions, ws.sid)
     THEN /\ out' = Envelope("error", "SESSION_NOT_FOUND")
          /\ UNCHANGED <<sessions, ws>>
     ELSE /\ sessions' = update_session_state(sessions, ws.sid, IN_PROGRESS)
          /\ SendNextQuestionRaises
  /\ UNCHANGED <<next_sid, session_info, remote_q, next_qid, cache, next_tok,
                 jobs, inflight, configured, clip, idle_video, tts, now>>

\* {type: answer}: handle_answer
WsAnswer(qid, text) ==
  /\ ws.pc = "open"
  /\ IF ~get_session(sessions, ws.sid)
     THEN /\ out' = Envelope("error", "SESSION_NOT_FOUND")
          /\ UNCHANGED <<sessions, ws>>
     ELSE IF question_id_is_none(qid)
     THEN /\ out' = Envelope("error", "MISSING_QUESTION_ID")
          /\ UNCHANGED <<sessions, ws>>
     ELSE /\ Len(sessions[ws.sid].answers) < MaxAnswers
          /\ sessions' = update_session_state(
                            record_answer(sessions, ws.sid, qid, text),
                            ws.sid, PROCESSING)
          /\ SendNextQuestionRaises
  /\ UNCHANGED <<next_sid, session_info, remote_q, next_qid, cache, next_tok,
                 jobs, inflight, configured, clip, idle_video, tts, now>>

\* the pong carries no timestamp
WsPingDropsTimestamp(ts) ==
  /\ ws.pc = "open"
  /\ out' = Envelope("pong", NULL)
  /\ UNCHANGED <<sessions, next_sid, session_info, remote_q, next_qid, cache,
                 next_tok, jobs, inflight, ws, configured, clip, idle_video, tts, now>>

\* {type: ping}
WsPing(ts) ==
  /\ ws.pc = "open"
  /\ out' = [Envelope("pong", NULL) EXCEPT !.timestamp = ts]
  /\ UNCHANGED <<sessions, next_sid, session_info, remote_q, next_qid, cache,
                 next_tok, jobs, inflight, ws, configured, clip, idle_video, tts, now>>

\* a message of another type, or one that is not JSON
WsUnknown ==
  /\ ws.pc = "open"
  /\ \E code \in {"UNKNOWN_TYPE", "INVALID_JSON"} : out' = Envelope("error", code)
  /\ UNCHANGED <<sessions, next_sid, session_info, remote_q, next_qid, cache,
                 next_tok, jobs, inflight, ws, configured, clip, idle_video, tts, now>>

\* {type: end} or WebSocketDisconnect: the finally block. end_session is
\* called without await, so only the local session is deleted
WsClose ==
  /\ ws.pc = "open"
  /\ sessions' = delete_session(sessions, ws.sid)
  /\ ws' = [ws EXCEPT !.pc = "closed"]
  /\ out' = NoOut
  /\ UNCHANGED <<next_sid, session_info, remote_q, next_qid, cache, next_tok,
                 jobs, inflight, configured, clip, idle_video, tts, now>>

\* except Exception: send INTERNAL_ERROR, then the finally block
WsFail ==
  /\ ws.pc = "failing"
  /\ sessions' = delete_session(sessions, ws.sid)
  /\ ws' = [ws EXCEPT !.pc = "closed"]
  /\ out' = Envelope("error", "INTERNAL_ERROR")
  /\ UNCHANGED <<next_sid, session_info, remote_q, next_qid, cache, next_tok,
                 jobs, inflight, configured, clip, idle_video, tts, now>>

\* ------------------------------------------------------------ TTSService
\* total_duration is counted in ticks of a quarter of a millisecond; the
\* word timings and the reported duration are whole milliseconds (round(x, 3))
TicksPerMs == 4

\* the pause after a word that ends in .!? (0.2 s) and in ,;: (0.1 s)
SentencePause == 200 * TicksPerMs

CommaPause == 100 * TicksPerMs

\* word[-1]: one of .!? ("stop"), one of ,;: ("comma"), or another character
LastChars == {"stop", "comma", "other"}

\* a word of re.findall(r'\S+', text): its length and its last character
Words == [len : 1..MaxWordLen, last : LastChars]

Texts == UNION {[1..n -> Words] : n \in 0..MaxWords}

Durations == 0..MaxDuration

\* a float lies below (-1), on (0) or above (1) the decimal value it stands
\* for; it decides which way round(x, 3) goes when that value is a tie
FloatErrs == {-1, 0, 1}

\* what communicate.stream() does: edge_tts sends nothing for a text without
\* words and the stream ends at once ("silent"); for other texts it yields
\* audio chunks and sentence boundaries ("audio"), raises NoAudioReceived
\* when the provider sent no audio ("no_audio"), or raises the connection
\* error ("unreachable")
StreamOutcomes(text) ==
  IF Len(text) = 0 THEN {"silent"} ELSE {"audio", "no_audio", "unreachable"}

\* texts and durations of the documented scenarios: "Hello world." in 1.0 s
ScenarioTexts == {<<[len |-> 5, last |-> "other"], [len |-> 6, last |-> "stop"]>>}

ScenarioDurations == {1000 * TicksPerMs}

NoTts == [pc |-> "idle", text |-> <<>>, stream |-> "none", total_duration |-> 0,
          word_timings |-> <<>>, duration |-> 0, error |-> NULL]

RECURSIVE SumLen(_, _)
\* sum(len(w) for w in words[:i])
SumLen(words, i) == IF i = 0 THEN 0 ELSE words[i].len + SumLen(words, i - 1)

\* the pause is taken off the word
word_pause_negative(w) ==
  IF w.last = "stop" THEN 0 - SentencePause
  ELSE IF w.last = "comma" THEN 0 - CommaPause
  ELSE 0

\* one pause for every punctuation mark
word_pause_flat(w) ==
  IF w.last \in {"stop", "comma"} THEN CommaPause ELSE 0

word_pause(w) ==
  IF w.last = "stop" THEN SentencePause
  ELSE IF w.last = "comma" THEN CommaPause
  ELSE 0

RECURSIVE SumPause(_, _)
SumPause(words, i) ==
  IF i = 0 THEN 0 ELSE word_pause(words[i]) + SumPause(words, i - 1)

\* current_time after the first i words, in ticks, times total_chars
current_time(words, T, i) ==
  T * SumLen(words, i) + SumLen(words, Len(words)) * SumPause(words, i)

\* round(n / d, 3) in milliseconds, n / d given in milliseconds
round3(n, d, err) ==
  LET q == n \div d
      r == n % d
  IN  IF 2 * r < d THEN q
      ELSE IF 2 * r > d THEN q + 1
      ELSE IF err < 0 THEN q
      ELSE IF err > 0 THEN q + 1
      ELSE IF q % 2 = 0 THEN q ELSE q + 1

\* the time between word i and word i + 1: round(current_time, 3), and after
\* the loop round(that * scale, 3) with scale = total_duration / current_time
boundary(words, T, i, ec, es) ==
  LET total_chars == SumLen(words, Len(words))
      last_time == current_time(words, T, Len(words))
      rounded == round3(current_time(words, T, i), total_chars * TicksPerMs, ec)
  IN  IF last_time > 0
      THEN round3(rounded * T * total_chars, last_time, es)
      ELSE rounded

\* a text without words gets one timing that spans the audio
estimate_word_timings_pads(words, T, ec, es) ==
  IF Len(words) = 0
  THEN <<[start |-> 0, end |-> round3(T, TicksPerMs, ec)]>>
  ELSE [i \in 1..Len(words) |->
          [start |-> boundary(words, T, i - 1, ec, es),
           end |-> boundary(words, T, i, ec, es)]]

\* _estimate_word_timings: start of word i is the end of word i - 1, both
\* rounded from the same current_time
estimate_word_timings(words, T, ec, es) ==
  [i \in 1..Len(words) |->
     [start |-> boundary(words, T, i - 1, ec, es),
      end |-> boundary(words, T, i, ec, es)]]

\* current_time is total_duration itself when the text is one word without
\* a pause: (len / total_chars) * total_duration is 1.0 * total_duration
exact_sum(words) == Len(words) = 1 /\ word_pause(words[1]) = 0

\* the TTSResult of generate_speech once the stream has ended
SpeechResult(et, ec, es) ==
  [tts EXCEPT
     !.pc = "returned",
     !.word_timings = estimate_word_timings(tts.text, tts.total_duration, ec, es),
     !.duration = round3(tts.total_duration, TicksPerMs, et)]

\* an exception of the stream is caught and an empty result returned
GenerateSpeechSwallows ==
  /\ tts.pc = "called"
  /\ \E et \in FloatErrs, ec \in FloatErrs, es \in FloatErrs :
       /\ exact_sum(tts.text) => ec = et
       /\ tts' = SpeechResult(et, ec, es)
  /\ out' = NoOut
  /\ UNCHANGED <<sessions, next_sid, session_info, remote_q, next_qid, cache,
                 next_tok, jobs, inflight, ws, configured, clip, idle_video,
                 now>>

\* generate_speech: an exception of the stream leaves the coroutine; at the
\* end of the stream the word timings and the duration are computed
GenerateSpeech ==
  /\ tts.pc = "called"
  /\ IF tts.stream \in {"no_audio", "unreachable"}
     THEN tts' = [tts EXCEPT !.pc = "raised", !.error = tts.stream]
     ELSE \E et \in FloatErrs, ec \in FloatErrs, es \in FloatErrs :
            /\ exact_sum(tts.text) => ec = et
            /\ tts' = SpeechResult(et, ec, es)
  /\ out' = NoOut
  /\ UNCHANGED <<sessions, next_sid, session_info, remote_q, next_qid, cache,
                 next_tok, jobs, inflight, ws, configured, clip, idle_video,
                 now>>

\* ------------------------------------------------------------------ Init
Init ==
  /\ sessions = EmptyFn
  /\ next_sid = 1
  /\ session_info = {}
  /\ remote_q = [s \in SessionIds |-> <<>>]
  /\ next_qid = 1
  /\ cache = EmptyFn
  /\ next_tok = 1
  /\ jobs = EmptyFn
  /\ clip = NoClip
  /\ idle_video = [p \in Presenters |-> NoIdleVideo]
  /\ tts = NoTts
  /\ now = 0
  /\ inflight = EmptyFn
  /\ ws = NoWs
  /\ out = NoOut
  /\ configured \in BOOLEAN

\* ------------------------------------------------------------------ Next
QidInputs == Qids \cup {NoneId}

\* the session operations over HTTP
HttpSession ==
  \/ StartInterview
  \/ \E rq \in Suspended : StartSessionReturns(rq)
  \/ \E op \in {"question", "generate"}, sid \in SessionIds : FetchQuestion(op, sid)
  \/ \E op \in AnswerOps, sid \in SessionIds, qid \in QidInputs,
        text \in AnswerTexts : SubmitAnswer(op, sid, qid, text)
  \/ \E rq \in Suspended : SendAnsReturns(rq)
  \/ \E rq \in Suspended : GenQuesReturns(rq)
  \/ \E rq \in Suspended : TtsReturns(rq)
  \/ \E rq \in Suspended : AvatarReturns(rq)
  \/ \E sid \in SessionIds : EndInterview(sid)
  \/ \E rq \in Suspended : EndSessionReturns(rq)

\* the session operations over the WebSocket
WsSession ==
  \/ WsConnect
  \/ WsStart
  \/ \E qid \in QidInputs, text \in AnswerTexts : WsAnswer(qid, text)
  \/ WsClose
  \/ WsFail

\* the background worker and the polls of its job table
VideoJobs ==
  \/ \E t \in Tokens : JobStart(t)
  \/ \E t \in Tokens : JobFinish(t)
  \/ \E tok \in Tokens : GetVideoStatus(tok)

\* the operations that read and answer only
ReadOnly ==
  \/ \E sid \in SessionIds : GetSessionStatus(sid)
  \/ \E ts \in PingTimestamps : WsPing(ts)
  \/ WsUnknown

\* the orchestrator: every operation that writes the Session Registry
Next == HttpSession \/ WsSession

Spec == Init /\ [][Next]_vars

\* no request is suspended
Idle == inflight = EmptyFn

\* time passes between two calls of get_timestamp()
Tick ==
  /\ now < MaxClock
  /\ now' = now + 1
  /\ out' = NoOut
  /\ UNCHANGED <<sessions, next_sid, session_info, remote_q, next_qid, cache,
                 next_tok, jobs, inflight, ws, configured, clip, idle_video, tts>>

\* the HTTP requests of a session taken one at a time, while time passes
NextClock ==
  \/ Idle /\ StartInterview
  \/ \E rq \in Suspended : StartSessionReturns(rq)
  \/ Idle /\ \E op \in {"question", "generate"}, sid \in SessionIds :
               FetchQuestion(op, sid)
  \/ Idle /\ \E op \in AnswerOps, sid \in SessionIds, qid \in QidInputs,
               text \in AnswerTexts : SubmitAnswer(op, sid, qid, text)
  \/ \E rq \in Suspended : SendAnsReturns(rq)
  \/ \E rq \in Suspended : GenQuesReturns(rq)
  \/ \E rq \in Suspended : TtsReturns(rq)
  \/ \E rq \in Suspended : AvatarReturns(rq)
  \/ Idle /\ \E sid \in SessionIds : EndInterview(sid)
  \/ \E rq \in Suspended : EndSessionReturns(rq)
  \/ Tick

SpecClock == Init /\ [][NextClock]_vars

\* get_next_question, first half: the question source handles the GET of
\* gen_ques and issues a new question row; its answer is on the way back to
\* the handler, which is still suspended in `async with session.get(...)`
SourceIssues(rq) ==
  /\ rq.pc = "gen_ques"
  /\ next_qid <= MaxQid
  /\ remote_q' = [remote_q EXCEPT ![rq.sid] = Append(@, next_qid)]
  /\ next_qid' = next_qid + 1
  /\ Suspend(rq, [rq EXCEPT !.question = next_qid,
                            !.touched = @ \cup {"source"}],
             "gen_ques_reply")
  /\ UNCHANGED <<sessions, next_sid, session_info, cache, next_tok, jobs, ws,
                 configured, clip, idle_video, tts, now>>

\* get_next_question, second half: the answer of the source arrives, the
\* handler resumes and stores the question it was given as the current one
QuestionArrives(rq) ==
  /\ rq.pc = "gen_ques_reply"
  /\ LET ss2 == update_session_state(
                  set_current_question(sessions, rq.sid, rq.question),
                  rq.sid, WAITING_FOR_ANSWER)
     IN /\ sessions' = ss2
        /\ Suspend(rq, Touch(rq, ss2), "tts")
  /\ UNCHANGED <<next_sid, session_info, remote_q, next_qid, cache, next_tok,
                 jobs, ws, configured, clip, idle_video, tts, now>>

\* the HTTP handlers, with the answers of the question source arriving in any
\* order: issuing a question and resuming the handler are two steps
NextSource ==
  \/ StartInterview
  \/ \E rq \in Suspended : StartSessionReturns(rq)
  \/ \E op \in {"question", "generate"}, sid \in SessionIds : FetchQuestion(op, sid)
  \/ \E op \in AnswerOps, sid \in SessionIds, qid \in QidInputs,
        text \in AnswerTexts : SubmitAnswer(op, sid, qid, text)
  \/ \E rq \in Suspended : SendAnsReturns(rq)
  \/ \E rq \in Suspended : SourceIssues(rq)
  \/ \E rq \in Suspended : QuestionArrives(rq)
  \/ \E rq \in Suspended : GenQuesReturns(rq) /\ remote_q' = remote_q
  \/ \E rq \in Suspended : TtsReturns(rq)
  \/ \E rq \in Suspended : AvatarReturns(rq)
  \/ \E sid \in SessionIds : EndInterview(sid)
  \/ \E rq \in Suspended : EndSessionReturns(rq)

SpecSource == Init /\ [][NextSource]_vars

\* the orchestrator with the operations that only read
NextOrchestrator == Next \/ ReadOnly

SpecOrchestrator == Init /\ [][NextOrchestrator]_vars

\* the Video Generation Tracker with the operations that register jobs. A
\* handler writes the job table in one step only, the one that registers a
\* token, so the requests are taken one at a time here; what interleaves is
\* the request in progress, the background tasks and the polls
NextVideo ==
  \/ Idle /\ StartInterview
  \/ \E rq \in Suspended : StartSessionReturns(rq)
  \/ Idle /\ \E op \in {"question", "generate"}, sid \in SessionIds :
               FetchQuestion(op, sid)
  \/ \E rq \in Suspended : GenQuesReturns(rq)
  \/ \E rq \in Suspended : TtsReturns(rq)
  \/ \E rq \in Suspended : AvatarReturns(rq)
  \/ Idle /\ \E sid \in SessionIds : EndInterview(sid)
  \/ \E rq \in Suspended : EndSessionReturns(rq)
  \/ VideoJobs

SpecVideo == Init /\ [][NextVideo]_vars

\* the poll loop of one clip on its own; every await of the loop returns
\* (the HTTP client has a total timeout per request, the sleep is finite)
NextPoll == PollBegin \/ PollGet \/ PollSleep

SpecPoll == Init /\ [][NextPoll]_vars /\ WF_vars(NextPoll)

\* one background job from its start to the write of its outcome
NextAvatar ==
  \/ BackgroundStart
  \/ CreateClip
  \/ PollGet
  \/ PollSleep
  \/ AvatarReturn
  \/ BackgroundFinish

SpecAvatar == Init /\ [][NextAvatar]_vars

\* ------------------------------------------- the registry on its own
\* SessionManager called directly, one call at a time (its methods are
\* synchronous), with ids that are registered and ids that are not
RegIds == 1..(MaxSessions + 2)

RegStates == {IN_PROGRESS, PROCESSING, COMPLETED}

\* what a call returns: the session (or None), a bool, a summary (or None)
Returned(op, sid, value) ==
  [NoOut EXCEPT !.kind = "returned", !.op = op, !.sid = sid, !.cause = value]

\* Optional[InterviewSession]: self._sessions.get(session_id) after the call
SessionOrNone(ss, sid) == IF get_session(ss, sid) THEN "session" ELSE "none"

RegCreate ==
  /\ next_sid <= MaxSessions + 1
  /\ sessions' = create_session(sessions, next_sid)
  /\ next_sid' = next_sid + 1
  /\ out' = Returned("create_session", next_sid, "session")
  /\ UNCHANGED <<session_info, remote_q, next_qid, cache, next_tok, jobs,
                 inflight, ws, configured, clip, idle_video, tts, now>>

RegUpdateState(sid, st) ==
  /\ sessions' = update_session_state(sessions, sid, st)
  /\ out' = Returned("update_session_state", sid, SessionOrNone(sessions, sid))
  /\ UNCHANGED next_sid
  /\ UNCHANGED <<session_info, remote_q, next_qid, cache, next_tok, jobs,
                 inflight, ws, configured, clip, idle_video, tts, now>>

RegSetCurrentQuestion(sid, q) ==
  /\ sessions' = set_current_question(sessions, sid, q)
  /\ out' = Returned("set_current_question", sid, SessionOrNone(sessions, sid))
  /\ UNCHANGED next_sid
  /\ UNCHANGED <<session_info, remote_q, next_qid, cache, next_tok, jobs,
                 inflight, ws, configured, clip, idle_video, tts, now>>

RegRecordAnswer(sid, q, text) ==
  /\ sid \in DOMAIN sessions => Len(sessions[sid].answers) < MaxAnswers
  /\ sessions' = record_answer(sessions, sid, q, text)
  /\ out' = [Returned("record_answer", sid, SessionOrNone(sessions, sid)) EXCEPT
               !.question_id = q]
  /\ UNCHANGED next_sid
  /\ UNCHANGED <<session_info, remote_q, next_qid, cache, next_tok, jobs,
                 inflight, ws, configured, clip, idle_video, tts, now>>

RegComplete(sid) ==
  /\ sessions' = complete_session(sessions, sid)
  /\ out' = Returned("complete_session", sid, SessionOrNone(sessions, sid))
  /\ UNCHANGED next_sid
  /\ UNCHANGED <<session_info, remote_q, next_qid, cache, next_tok, jobs,
                 inflight, ws, configured, clip, idle_video, tts, now>>

RegDelete(sid) ==
  /\ sessions' = delete_session(sessions, sid)
  /\ out' = Returned("delete_session", sid,
                     IF get_session(sessions, sid) THEN "true" ELSE "false")
  /\ UNCHANGED next_sid
  /\ UNCHANGED <<session_info, remote_q, next_qid, cache, next_tok, jobs,
                 inflight, ws, configured, clip, idle_video, tts, now>>

RegSummary(sid) ==
  /\ LET sm == get_session_summary(sessions, sid) IN
       out' = [Returned("get_session_summary", sid,
                        IF sm.present THEN "summary" ELSE "none") EXCEPT
                 !.questions_answered = sm.questions_answered,
                 !.summary_state = sm.state]
  /\ UNCHANGED <<sessions, next_sid>>
  /\ UNCHANGED <<session_info, remote_q, next_qid, cache, next_tok, jobs,
                 inflight, ws, configured, clip, idle_video, tts, now>>

NextRegistry ==
  \/ RegCreate
  \/ \E sid \in RegIds, st \in RegStates : RegUpdateState(sid, st)
  \/ \E sid \in RegIds, q \in Qids : RegSetCurrentQuestion(sid, q)
  \/ \E sid \in RegIds, q \in Qids, text \in AnswerTexts : RegRecordAnswer(sid, q, text)
  \/ \E sid \in RegIds : RegComplete(sid)
  \/ \E sid \in RegIds : RegDelete(sid)
  \/ \E sid \in RegIds : RegSummary(sid)

SpecRegistry == Init /\ [][NextRegistry]_vars

\* generate_idle_video on its own, its calls interleaved at the await
NextIdle ==
  \/ \E presenter \in Presenters, force_regenerate \in BOOLEAN :
        IdleCall(presenter, force_regenerate)
  \/ \E presenter \in Presenters : IdleGenerated(presenter)

SpecIdle == Init /\ [][NextIdle]_vars

\* the persistent connection with all its message types, next to the HTTP
\* requests served by the same process
NextWs ==
  \/ HttpSession
  \/ WsSession
  \/ \E ts \in PingTimestamps : WsPing(ts)
  \/ WsUnknown

SpecWs == Init /\ [][NextWs]_vars

\* generate_speech on its own: one call per text and outcome of the stream;
\* total_duration is sentence_duration, or len(audio_bytes) / 16000
InitTts ==
  /\ sessions = EmptyFn
  /\ next_sid = 1
  /\ session_info = {}
  /\ remote_q = [s \in SessionIds |-> <<>>]
  /\ next_qid = 1
  /\ cache = EmptyFn
  /\ next_tok = 1
  /\ jobs = EmptyFn
  /\ clip = NoClip
  /\ idle_video = [p \in Presenters |-> NoIdleVideo]
  /\ inflight = EmptyFn
  /\ ws = NoWs
  /\ out = NoOut
  /\ configured = TRUE
  /\ now = 0
  /\ \E text \in Texts \cup ScenarioTexts :
       \E stream \in StreamOutcomes(text) :
         \E total_duration \in
               IF stream = "audio" THEN Durations \cup ScenarioDurations ELSE {0} :
           tts = [NoTts EXCEPT !.pc = "called", !.text = text, !.stream = stream,
                               !.total_duration = total_duration]

NextTts == GenerateSpeech

SpecTts == InitTts /\ [][NextTts]_vars

\* the whole service
NextAll == HttpSession \/ WsSession \/ VideoJobs \/ ReadOnly

SpecAll == Init /\ [][NextAll]_vars

TypeOK ==
  /\ DOMAIN sessions \subseteq RegIds
  /\ \A s \in DOMAIN sessions :
       /\ sessions[s].state \in {CREATED, IN_PROGRESS, WAITING_FOR_ANSWER,
                                 PROCESSING, COMPLETED, EXPIRED}
       /\ Len(sessions[s].answers) <= MaxAnswers
  /\ DOMAIN cache \subseteq Tokens
  /\ DOMAIN jobs = DOMAIN cache
  /\ clip.pc \in {"idle", "create", "get", "sleep", "returned", "raised",
                  "avatar_returned", "finished"}
  /\ now \in 0..MaxClock
  /\ clip.elapsed \in 0..AVATAR_GENERATION_TIMEOUT
  /\ Count(inflight, DOMAIN inflight) <= MaxReq

\* ---------------------------------------------------------------- claims
\* the answer (q, text) is in the answer list of session sid in registry ss
Recorded(ss, sid, q, text) ==
  /\ sid \in DOMAIN ss
  /\ \E i \in 1..Len(ss[sid].answers) :
       ss[sid].answers[i] = [question_id |-> q, answer_text |-> text]

\* the frames that reach the await pc in this step
Arriving(pc) ==
  {rq \in DOMAIN inflight' :
     /\ rq.pc = pc
     /\ (rq \notin DOMAIN inflight \/ inflight'[rq] > inflight[rq])}

\* C1: whenever a submit_answer handler (sync or async) asks the source for
\* the next question, the submitted answer is in its session's answer list.
C1_AnswerRecordedBeforeNextQuestion ==
  [][\A rq \in Arriving("gen_ques") :
       rq.op \in AnswerOps => Recorded(sessions', rq.sid, rq.qid, rq.text)]_vars

\* C2: when the source call raises during start or submit_answer, the request
\* fails and has changed nothing: no session added, and state, current
\* question and answers of the session as they were.
C2_SourceErrorChangesNothing ==
  (out.cause = "source_raised" /\ out.op \in {"start"} \cup AnswerOps) =>
     /\ out.kind = "error"
     /\ out.touched = {}

\* C3: when speech synthesis fails while a question is being delivered, the
\* request is aborted and has changed neither the session's state nor its
\* current question id.
C3_TtsFailureChangesNothing ==
  out.cause = "tts_failed" =>
     /\ out.kind = "error"
     /\ out.touched \cap {"state", "current_question_id"} = {}

\* the session s enters COMPLETED in this step
Completes(s) ==
  /\ s \in DOMAIN sessions'
  /\ sessions'[s].state = COMPLETED
  /\ (s \in DOMAIN sessions => sessions[s].state # COMPLETED)

\* C4: a session enters COMPLETED only in a step in which the source was
\* asked for the next question and answered that there is none; never because
\* the session has no mapping to a session of the source.
C4_CompletedOnlyOnExhaustion ==
  [][\A s \in SessionIds :
       Completes(s) => (out'.kind = "complete" /\ out'.sid = s
                        /\ out'.cause \in NoneCauses)]_vars

C6_GetNextQuestionIdempotent ==
  (out.kind = "question" /\ out.op = "question") => out.touched = {}

\* the state changes of the lifecycle
AllowedTransitions ==
  { <<CREATED, IN_PROGRESS>>, <<IN_PROGRESS, WAITING_FOR_ANSWER>>,
    <<IN_PROGRESS, PROCESSING>>, <<WAITING_FOR_ANSWER, PROCESSING>>,
    <<PROCESSING, WAITING_FOR_ANSWER>>, <<PROCESSING, COMPLETED>> }

\* a step may hold two consecutive writes of the state
AllowedInOneStep ==
  AllowedTransitions \cup
  {<<p[1][1], p[2][2]>> :
     p \in {q \in AllowedTransitions \X AllowedTransitions : q[1][2] = q[2][1]}}

\* C7: every change of a session's state is one of the six lifecycle
\* transitions (or two of them in a row within one step), and nothing leaves
\* COMPLETED.
C7_LifecycleTransitions ==
  [][\A s \in DOMAIN sessions \cap DOMAIN sessions' :
       sessions'[s].state # sessions[s].state =>
         /\ sessions[s].state # COMPLETED
         /\ <<sessions[s].state, sessions'[s].state>> \in AllowedInOneStep]_vars

\* C8: a job's status only moves pending -> processing -> completed | failed,
\* one move at a time and never back; a job is registered as pending and never
\* removed; the move to completed writes the video URL and the move to failed
\* the error, each with the completion timestamp.
C8_JobStatusMonotone ==
  [][/\ \A t \in DOMAIN cache' \ DOMAIN cache : cache'[t].status = "pending"
     /\ \A t \in DOMAIN cache :
          /\ t \in DOMAIN cache'
          /\ cache'[t] # cache[t] =>
               \/ /\ cache[t].status = "pending"
                  /\ cache'[t].status = "processing"
               \/ /\ cache[t].status = "processing"
                  /\ cache'[t].status = "completed"
                  /\ cache'[t].video_url # NULL
                  /\ cache'[t].completed_at # NULL
               \/ /\ cache[t].status = "processing"
                  /\ cache'[t].status = "failed"
                  /\ cache'[t].error # NULL
                  /\ cache'[t].completed_at # NULL]_vars

C8_Witness ==
  \E t, u \in DOMAIN cache :
     /\ cache[t].status = "completed" /\ cache[t].video_url # NULL
     /\ cache[u].status = "failed" /\ cache[u].error # NULL

\* a job record, or what a poll reports of it, is consistent
ConsistentJob(status, video_url, error) ==
  /\ status \in {"pending", "processing", "completed", "failed"}
  /\ status = "completed" => video_url # NULL
  /\ status = "failed" => error # NULL
  /\ status \in {"pending", "processing"} => (video_url = NULL /\ error = NULL)

\* C9: every job record is consistent at every moment a poll may read it, and
\* so is every poll response: completed has a video URL and a completion
\* timestamp, failed has an error and a completion timestamp, pending and
\* processing have neither URL nor error.
C9_PollSeesConsistentRecord ==
  /\ \A t \in DOMAIN cache :
       /\ ConsistentJob(cache[t].status, cache[t].video_url, cache[t].error)
       /\ cache[t].status \in {"completed", "failed"} <=> cache[t].completed_at # NULL
  /\ out.kind = "video_status" =>
       /\ ConsistentJob(out.video_status, out.video_url, out.error)
       /\ out.video_status = cache[out.generation_id].status

C9_Witness ==
  /\ out.kind = "video_status"
  /\ out.video_status = "completed"
  /\ out.video_url # NULL
  /\ \E t \in DOMAIN cache : cache[t].status = "processing"

C11_AsyncVideoResponseWithoutTimings ==
  (out.kind = "question" /\ configured /\ out.op \in AsyncOps) =>
     /\ out.avatar_mode = VIDEO
     /\ out.video_status = "generating"
     /\ out.generation_id \in DOMAIN cache
     /\ cache[out.generation_id].status = "pending"
     /\ out.word_timings = NULL

\* C12: with the avatar unconfigured, every question response carries the
\* word timings of the question text and the static presenter image.
C12_AudioOnlyResponseHasTimings ==
  (out.kind = "question" /\ ~configured) =>
     /\ out.word_timings # NULL
     /\ out.avatar_image_url # NULL

\* C13: with the avatar unconfigured no job is ever registered and no call of
\* the provider is in flight (no handler waits for generate_avatar_video, no
\* background task exists), and every question response of start,
\* question/generate and answer/async has a null generation token,
\* video_status disabled, avatar_mode audio_only and no video URL.
C13_UnconfiguredRegistersNoJob ==
  ~configured =>
     /\ cache = EmptyFn
     /\ jobs = EmptyFn
     /\ \A rq \in DOMAIN inflight : rq.pc # "avatar"
     /\ (out.kind = "question" /\ out.op \in AsyncOps) =>
          /\ out.generation_id = 0
          /\ out.video_status = "disabled"
          /\ out.avatar_mode = AUDIO_ONLY
          /\ out.video_url = NULL

C13_Witness ==
  /\ ~configured
  /\ out.kind = "question"
  /\ out.op = "answer_async"
  /\ out.video_status = "disabled"
  /\ out.generation_id = 0

\* C14: every question response, in video mode and in audio-only mode,
\* carries the audio synthesized for the question it delivers, also when the
\* session's current question has moved on meanwhile.
C14_AudioIsOfDeliveredQuestion ==
  out.kind = "question" =>
     /\ out.question_id \in Qids
     /\ out.audio_of = out.question_id

C14_Witness ==
  /\ out.kind = "question"
  /\ out.avatar_mode = VIDEO
  /\ out.audio_of = out.question_id
  /\ out.sid \in DOMAIN sessions
  /\ sessions[out.sid].current_question_id # out.question_id

\* the background task of token t takes a step
JobSteps(t) ==
  /\ t \in DOMAIN jobs
  /\ t \in DOMAIN jobs'
  /\ jobs'[t] # jobs[t]

\* C15: a step of a background video job, whatever its outcome, leaves the
\* session registry, the source mappings and the requests in progress as they
\* are, and writes nothing but its own job record; a failure is recorded as
\* status failed with an error on that record.
C15_JobChangesNoSession ==
  [][\A t \in Tokens :
       JobSteps(t) =>
         /\ sessions' = sessions
         /\ session_info' = session_info
         /\ remote_q' = remote_q
         /\ inflight' = inflight
         /\ \A u \in DOMAIN cache \ {t} : cache'[u] = cache[u]
         /\ cache'[t].session_id = cache[t].session_id
         /\ jobs'[t] = "done" =>
              \/ cache'[t].status = "completed"
              \/ cache'[t].status = "failed" /\ cache'[t].error # NULL]_vars

C15_Witness ==
  \E t \in DOMAIN cache :
     /\ jobs[t] = "done"
     /\ cache[t].status = "failed"
     /\ cache[t].session_id \in DOMAIN sessions
     /\ sessions[cache[t].session_id].state = WAITING_FOR_ANSWER
     /\ sessions[cache[t].session_id].current_question_id = cache[t].question_id

\* one step of the background task of token t
JobStep(t) == JobStart(t) \/ JobFinish(t)

\* the session that token t was issued for is not in the registry
Orphaned(t) == cache[t].session_id \notin DOMAIN sessions

\* C16: when the session of a job has been ended, the job is not stopped by
\* it: while pending or processing its next step can be taken and leaves the
\* registry as it is (the session stays absent), and a job that has run to
\* its end is completed or failed.
C16_JobOutlivesSession ==
  \A t \in DOMAIN jobs :
     Orphaned(t) =>
        /\ jobs[t] # "done" =>
             /\ cache[t].status \in {"pending", "processing"}
             /\ ENABLED JobStep(t)
             /\ ~ENABLED (JobStep(t) /\ sessions' # sessions)
        /\ jobs[t] = "done" => cache[t].status \in {"completed", "failed"}

C16_Witness ==
  /\ out.kind = "ended"
  /\ \E t \in DOMAIN jobs :
        /\ Orphaned(t)
        /\ out.sid = cache[t].session_id
        /\ jobs[t] = "queued"
        /\ cache[t].status = "pending"
  /\ \E t \in DOMAIN jobs :
        /\ Orphaned(t)
        /\ jobs[t] = "avatar"
        /\ cache[t].status = "processing"

\* the generation tokens issued so far
IssuedTokens == 1..(next_tok - 1)

\* C17: a job record is never removed, every token issued has its record,
\* and a poll answers 404 exactly for a token that was never issued; for an
\* issued token it returns the job record, also after the job's session ended.
C17_PollNotFoundOnlyForUnknownToken ==
  [][/\ DOMAIN cache \subseteq DOMAIN cache'
     /\ DOMAIN cache' = IssuedTokens'
     /\ out'.op = "poll" =>
          IF out'.generation_id \in IssuedTokens'
          THEN /\ out'.kind = "video_status"
               /\ out'.video_status = cache'[out'.generation_id].status
          ELSE /\ out'.kind = "error"
               /\ out'.code = 404]_vars

C17_Witness ==
  /\ out.op = "poll"
  /\ out.kind = "video_status"
  /\ out.generation_id \in IssuedTokens
  /\ cache[out.generation_id].session_id \notin DOMAIN sessions

\* the number of polls the counter allows
MaxPolls == AVATAR_GENERATION_TIMEOUT \div AVATAR_POLL_INTERVAL

\* the loop is over: it returned a result, or an exception left it
PollFinished == clip.pc \in {"returned", "raised"}

\* the loop counts one interval per poll, never polls more often than the
\* timeout allows, goes on only after a non-terminal reply, and returns at
\* the first done or error
PollLoopBounded ==
  /\ clip.polls <= MaxPolls
  /\ clip.pc = "get" =>
       /\ clip.elapsed = AVATAR_POLL_INTERVAL * clip.polls
       /\ clip.last \in {NULL, "processing", "non200"}
  /\ clip.pc = "sleep" =>
       /\ clip.elapsed = AVATAR_POLL_INTERVAL * (clip.polls - 1)
       /\ clip.last \in {"processing", "non200"}
  /\ (clip.pc = "returned" /\ clip.last = "done") => clip.result.success
  /\ (clip.pc = "returned" /\ clip.last = "error") =>
       (~clip.result.success /\ clip.result.error_message = "msg")

AnswerLeavesAlone ==
  UNCHANGED <<sessions, session_info, remote_q, next_qid, cache, next_tok,
              jobs, inflight>>

\* C19: submit_answer for a session id that is not in the registry answers
\* NotFound (HTTP 404, SESSION_NOT_FOUND on the WebSocket) and changes
\* neither the registry nor the job table; the source is called (the handler
\* reaches the await of submit_answer) only for a session that is registered.
C19_AnswerForUnknownSession ==
  [][/\ \A rq \in Arriving("send_ans") : rq.sid \in DOMAIN sessions
     /\ (out'.op \in AnswerOps /\ out'.from = "begin" /\ out'.sid \notin DOMAIN sessions) =>
          /\ out'.kind = "error"
          /\ out'.code = 404
          /\ out'.cause = "session_not_found"
     /\ (out'.op \in AnswerOps /\ out'.cause = "session_not_found") =>
          /\ out'.sid \notin DOMAIN sessions
          /\ AnswerLeavesAlone
     /\ (out'.op = "ws" /\ out'.cause = "SESSION_NOT_FOUND") =>
          /\ out'.kind = "error"
          /\ out'.sid \notin DOMAIN sessions
          /\ AnswerLeavesAlone]_vars

C19_Witness ==
  /\ out.kind = "error"
  /\ out.code = 404
  /\ out.cause = "session_not_found"
  /\ out.op = "answer_async"
  /\ out.sid \notin DOMAIN sessions
  /\ remote_q[out.sid] # <<>>
  /\ inflight # EmptyFn

\* what a rejected answer must leave alone: the registry, the source and the
\* requests in progress
RejectedAnswerLeavesAlone ==
  UNCHANGED <<sessions, session_info, remote_q, next_qid, inflight>>

\* C20: submit_answer on a registered session without question_id answers
\* with a validation error (HTTP 400, MISSING_QUESTION_ID on the WebSocket)
\* and leaves the session's state, current question id and answers as they
\* were; no answer without question id reaches the source (the await of
\* submit_answer) or the session's answer list.
C20_AnswerWithoutQuestionId ==
  [][/\ \A rq \in Arriving("send_ans") : rq.qid # NoneId
     /\ \A s \in DOMAIN sessions' :
          \A i \in 1..Len(sessions'[s].answers) :
             sessions'[s].answers[i].question_id # NoneId
     /\ (out'.op \in AnswerOps /\ out'.from = "begin" /\ out'.sid \in DOMAIN sessions) =>
          /\ out'.kind = "error"
          /\ out'.code = 400
          /\ out'.cause = "question_id_required"
     /\ (out'.op \in AnswerOps /\ out'.cause = "question_id_required") =>
          /\ out'.sid \in DOMAIN sessions
          /\ out'.touched = {}
          /\ RejectedAnswerLeavesAlone
     /\ (out'.op = "ws" /\ out'.cause = "MISSING_QUESTION_ID") =>
          /\ out'.kind = "error"
          /\ out'.sid \in DOMAIN sessions
          /\ RejectedAnswerLeavesAlone]_vars

C20_Witness ==
  /\ out.kind = "error"
  /\ out.code = 400
  /\ out.cause = "question_id_required"
  /\ out.op = "answer"
  /\ out.sid \in DOMAIN sessions
  /\ sessions[out.sid].state = WAITING_FOR_ANSWER
  /\ sessions[out.sid].current_question_id \in Qids
  /\ Len(sessions[out.sid].answers) = 1

\* the question ids the source issued to session sid
IssuedTo(sid) == {remote_q[sid][i] : i \in 1..Len(remote_q[sid])}

\* C21: an answer whose question_id matches no question issued to its
\* (registered) session is still recorded: when the source call of such an
\* answer returns, the handler can append the answer to the session's answer
\* list and go on to the next question, as for a matching question_id.
C21_UnmatchedAnswerIsRecorded ==
  \A rq \in DOMAIN inflight :
     (/\ rq.pc = "send_ans"
      /\ rq.sid \in DOMAIN sessions
      /\ rq.qid \notin IssuedTo(rq.sid)
      /\ Len(sessions[rq.sid].answers) < MaxAnswers) =>
        ENABLED (SendAnsReturns(rq) /\ Recorded(sessions', rq.sid, rq.qid, rq.text))

\* Summary(id).questions_answered in registry ss
AnsweredCount(ss, sid) == get_session_summary(ss, sid).questions_answered

\* C22: a RecordAnswer on a registered session raises that session's
\* questions_answered by exactly one and leaves every other session as it
\* was; the new entry is the last of the list and the earlier entries keep
\* their places, so two calls leave their two entries in call order.
C22_RecordAnswerCountsOne ==
  [][(out'.op = "record_answer" /\ out'.cause = "session") =>
       /\ AnsweredCount(sessions', out'.sid) = AnsweredCount(sessions, out'.sid) + 1
       /\ \A s \in DOMAIN sessions \ {out'.sid} :
            /\ s \in DOMAIN sessions'
            /\ sessions'[s] = sessions[s]
       /\ DOMAIN sessions' = DOMAIN sessions
       /\ LET before == sessions[out'.sid].answers
              after  == sessions'[out'.sid].answers
          IN  /\ Len(after) = Len(before) + 1
              /\ SubSeq(after, 1, Len(before)) = before
              /\ after[Len(after)].question_id = out'.question_id]_vars

C22_Witness ==
  /\ out.op = "record_answer"
  /\ out.cause = "session"
  /\ out.question_id = 2
  /\ Len(sessions[out.sid].answers) = 2
  /\ sessions[out.sid].answers[1].question_id = 1
  /\ sessions[out.sid].answers[2].question_id = 2
  /\ \E s \in DOMAIN sessions \ {out.sid} : Len(sessions[s].answers) = 1

\* the list a is the beginning of the list b
IsPrefix(a, b) == Len(a) <= Len(b) /\ SubSeq(b, 1, Len(a)) = a

\* C23: the answer list of a session is append-only: in every step of the
\* orchestrator the list of a session that stays registered keeps all its
\* entries, unchanged and in their places, and can only grow at its end.
C23_AnswersAppendOnly ==
  [][\A s \in DOMAIN sessions \cap DOMAIN sessions' :
       IsPrefix(sessions[s].answers, sessions'[s].answers)]_vars

C23_Witness ==
  \E s \in DOMAIN sessions :
     /\ Len(sessions[s].answers) = 2
     /\ sessions[s].answers[1].question_id # sessions[s].answers[2].question_id
     /\ sessions[s].state = COMPLETED

RegistryCalls ==
  {"update_session_state", "set_current_question", "record_answer",
   "complete_session", "delete_session", "get_session_summary"}

\* C24: UpdateState, SetCurrentQuestion, RecordAnswer, Complete, Delete and
\* Summary called with an id that is not registered return absent (None;
\* False for Delete), leave every stored session as it was and create none.
C24_UnknownIdIsNoOp ==
  [][(out'.kind = "returned" /\ out'.op \in RegistryCalls
        /\ out'.sid \notin DOMAIN sessions) =>
       /\ sessions' = sessions
       /\ out'.cause = IF out'.op = "delete_session" THEN "false" ELSE "none"
       /\ out'.questions_answered = 0
       /\ out'.summary_state = NULL]_vars

C24_Witness ==
  /\ out.kind = "returned"
  /\ out.op = "record_answer"
  /\ out.cause = "none"
  /\ out.sid \notin DOMAIN sessions
  /\ out.sid < next_sid
  /\ \E s \in DOMAIN sessions : Len(sessions[s].answers) = 1

\* C25: a job record is written only when it is registered and by the steps
\* of its own background task: a poll leaves the job table as it is, a step
\* that changes a record is a step of that record's task and changes no other
\* record, a new record comes with the response that hands out its token,
\* and session id, question id and start timestamp of a record never change.
C25_JobRecordWrittenByItsWorker ==
  [][/\ out'.op = "poll" => (cache' = cache /\ jobs' = jobs)
     /\ \A t \in DOMAIN cache' \ DOMAIN cache :
          /\ out'.kind = "question"
          /\ out'.generation_id = t
          /\ cache'[t] = PendingJob(out'.sid, out'.question_id)
          /\ \A u \in DOMAIN cache : cache'[u] = cache[u]
     /\ \A t \in DOMAIN cache :
          /\ t \in DOMAIN cache'
          /\ cache'[t].session_id = cache[t].session_id
          /\ cache'[t].question_id = cache[t].question_id
          /\ cache'[t].started_at = cache[t].started_at
          /\ cache'[t] # cache[t] =>
               /\ JobSteps(t)
               /\ \A u \in DOMAIN cache \ {t} : cache'[u] = cache[u]]_vars

C25_Witness ==
  /\ out.op = "poll"
  /\ out.kind = "video_status"
  /\ out.video_status = "pending"
  /\ jobs[out.generation_id] = "queued"
  /\ \E u \in DOMAIN cache : cache[u].status = "failed"

\* C26: without force_regenerate the idle asset of a presenter is generated
\* through the provider at most once: of the generations started for one
\* presenter at most one is still running or has ended with a video (a new
\* one is started only after the earlier ones have failed).
C26_IdleVideoGeneratedOnce ==
  \A p \in Presenters :
     ~idle_video[p].forced =>
        idle_video[p].started - idle_video[p].failed <= 1

C28_StartAnsweredWithQuestion ==
  [][/\ (WsStart /\ get_session(sessions, ws.sid)) =>
          (out'.kind \in {"question", "complete"} /\ ws'.pc = "open")
     /\ ~(out'.op = "ws" /\ out'.cause = "INTERNAL_ERROR")]_vars

RECURSIVE WordDurations(_, _)
\* the sum of end - start over the first i word timings, in milliseconds
WordDurations(timings, i) ==
  IF i = 0 THEN 0
  ELSE (timings[i].end - timings[i].start) + WordDurations(timings, i - 1)

\* C29: when generate_speech has returned for a text of at least one word,
\* the end of the last word timing is the reported duration, and the word
\* durations add up to the reported duration within 1 ms.
C29_LastEndIsTotalDuration ==
  (tts.pc = "returned" /\ Len(tts.text) >= 1) =>
     LET timings == tts.word_timings
         total == WordDurations(timings, Len(timings))
     IN  /\ Len(timings) = Len(tts.text)
         /\ timings[Len(timings)].end = tts.duration
         /\ total - tts.duration <= 1
         /\ tts.duration - total <= 1

\* the second half of C29 on its own
C29_SumWithinOneMs ==
  (tts.pc = "returned" /\ Len(tts.text) >= 1) =>
     LET timings == tts.word_timings
         total == WordDurations(timings, Len(timings))
     IN  /\ total - tts.duration <= 1
         /\ tts.duration - total <= 1

\* C30: when generate_speech has returned, every word timing has
\* 0 <= start <= end, and the ends never decrease along the text.
C30_TimingsOrdered ==
  tts.pc = "returned" =>
     LET timings == tts.word_timings IN
       /\ \A i \in 1..Len(timings) :
            /\ 0 <= timings[i].start
            /\ timings[i].start <= timings[i].end
       /\ \A i \in 1..(Len(timings) - 1) :
            timings[i].end <= timings[i + 1].end

C30_Witness ==
  /\ tts.pc = "returned"
  /\ Len(tts.word_timings) = 2
  /\ tts.text[1].last = "comma"
  /\ tts.total_duration % TicksPerMs # 0
  /\ 0 < tts.word_timings[1].end
  /\ tts.word_timings[1].end < tts.word_timings[2].end

\* C31: generate_speech on a text without words (empty, or whitespace only)
\* does not raise and returns no word timing and a duration of zero.
C31_EmptyTextGivesEmptyResult ==
  (tts.pc # "called" /\ Len(tts.text) = 0) =>
     /\ tts.pc = "returned"
     /\ tts.error = NULL
     /\ tts.word_timings = <<>>
     /\ tts.duration = 0

C31_Witness ==
  /\ tts.pc = "returned"
  /\ tts.text = <<>>
  /\ tts.stream = "silent"
  /\ tts.word_timings = <<>>

\* the time given to word i in the result, in milliseconds
TimingDuration(i) == tts.word_timings[i].end - tts.word_timings[i].start

\* word_duration of word i before rounding, in ticks times total_chars
WordDuration(i) ==
  current_time(tts.text, tts.total_duration, i)
    - current_time(tts.text, tts.total_duration, i - 1)

\* word i carries a larger pause class than word j: .!? over ,;: over none
LargerBonus(i, j) ==
  \/ tts.text[i].last = "stop" /\ tts.text[j].last # "stop"
  \/ tts.text[i].last = "comma" /\ tts.text[j].last = "other"

\* C32: for "Hello world." in 1.0 s the result has two timings, "Hello" is
\* shorter than "world." and "world." ends at 1.000; and of two words of the
\* same length the one with the larger pause class has the larger pause and
\* the larger word_duration before normalization.
C32_PauseBonusOrdersDurations ==
  tts.pc = "returned" =>
     /\ (tts.text \in ScenarioTexts /\ tts.total_duration \in ScenarioDurations) =>
           /\ Len(tts.word_timings) = 2
           /\ TimingDuration(1) < TimingDuration(2)
           /\ tts.word_timings[2].end = 1000
     /\ \A i \in 1..Len(tts.text), j \in 1..Len(tts.text) :
           (tts.text[i].len = tts.text[j].len /\ LargerBonus(i, j)) =>
              /\ word_pause(tts.text[i]) > word_pause(tts.text[j])
              /\ WordDuration(i) > WordDuration(j)

C32_Witness ==
  /\ tts.pc = "returned"
  /\ tts.text \in ScenarioTexts
  /\ tts.total_duration \in ScenarioDurations
  /\ tts.word_timings[1].end = 379
  /\ tts.word_timings[2].end = 1000

\* a two-word text where the larger pause class shows in the result
C32_WitnessBonus ==
  /\ tts.pc = "returned"
  /\ Len(tts.text) = 2
  /\ tts.text[1].len = tts.text[2].len
  /\ LargerBonus(1, 2)
  /\ TimingDuration(1) > TimingDuration(2)

\* C33: generate_speech on a text with at least one word raises, and returns
\* no result, when the provider is unreachable or sends no audio.
C33_NoAudioRaises ==
  (tts.pc # "called" /\ Len(tts.text) >= 1
     /\ tts.stream \in {"no_audio", "unreachable"}) =>
        /\ tts.pc = "raised"
        /\ tts.error # NULL
        /\ tts.word_timings = <<>>

C33_Witness ==
  /\ tts.pc = "raised"
  /\ tts.stream = "no_audio"
  /\ Len(tts.text) = 2
  /\ tts.error = "no_audio"

\* C34: the step in which an HTTP answer request (sync or async) learns that
\* the question source rejected or failed the submission answers HTTP 500,
\* leaves the registry, the question source and the job table as they were,
\* and leaves no frame of the request behind, so no next question is asked.
C34_FailedSubmissionChangesNothing ==
  [][(out'.kind = "error" /\ out'.cause = "submit_failed") =>
        /\ out'.code = 500
        /\ out'.op \in AnswerOps
        /\ UNCHANGED <<sessions, session_info, remote_q, next_qid, cache,
                       next_tok, jobs>>
        /\ Count(inflight', DOMAIN inflight') = Count(inflight, DOMAIN inflight) - 1
        /\ \A f \in DOMAIN inflight' :
              f \in DOMAIN inflight /\ inflight'[f] <= inflight[f]]_vars

C34_Witness ==
  /\ out.kind = "error"
  /\ out.cause = "submit_failed"
  /\ out.sid \in DOMAIN sessions
  /\ sessions[out.sid].state = WAITING_FOR_ANSWER
  /\ sessions[out.sid].current_question_id \in IssuedTo(out.sid)
  /\ sessions[out.sid].answers = <<>>
  /\ inflight = EmptyFn

C35_WitnessRaised ==
  /\ clip.pc = "finished"
  /\ clip.last = "raises"
  /\ clip.job.status = "failed"
  /\ clip.job.error = "Avatar generation timed out"

\* a session that leaves the registry in this step leaves it in the step in
\* which end returns for it, or in which its connection is closed
LeavesThroughEndOnly ==
  \A sid \in DOMAIN sessions :
     sid \notin DOMAIN sessions' =>
        \/ out'.kind = "ended" /\ out'.sid = sid
        \/ ws.sid = sid /\ ws.pc # "closed" /\ ws'.pc = "closed"

\* when end returns, the session and the source's tracking of it are gone and
\* the summary is the session as it was before this step
EndLeavesNothing ==
  out'.kind = "ended" =>
     /\ out'.sid \notin DOMAIN sessions'
     /\ out'.sid \notin session_info'
     /\ out'.sid \in DOMAIN sessions =>
          /\ out'.summary_state = sessions[out'.sid].state
          /\ out'.questions_answered = Len(sessions[out'.sid].answers)

\* a request for an id that is not registered is answered 404 at once
GoneIsNotFound ==
  \A sid \in SessionIds \ DOMAIN sessions :
     /\ (out'.kind # "none" /\ out'.sid = sid /\ out'.from = "begin"
           /\ out'.op \in {"status", "question", "generate", "end"} \cup AnswerOps) =>
           (out'.kind = "error" /\ out'.code = 404)
     /\ sid \notin DOMAIN sessions' \/ sid = next_sid

\* C36: a session leaves the registry only when end returns for it or when
\* its connection closes; when end returns, the summary is the session as it
\* was before the deletion and the question service tracks the id no longer,
\* also when the remote call failed; from then on status, get_next_question,
\* submit_answer and end for that id answer NotFound.
C36_EndLeavesNothingBehind ==
  [][LeavesThroughEndOnly /\ EndLeavesNothing /\ GoneIsNotFound]_vars

\* Summary(sid).completed_at in registry ss (NoneId: absent)
CompletedAt(ss, sid) == get_session_summary(ss, sid).completed_at

\* completed_at is present exactly in state COMPLETED
CompletedAtIffCompleted ==
  \A sid \in DOMAIN sessions :
     CompletedAt(sessions, sid) # NoneId <=> sessions[sid].state = COMPLETED

\* C37: the summary of a session has a completed_at exactly when the session
\* is COMPLETED, and a completed_at that a summary or a completion payload
\* has shown stays the completed_at of every later summary and completion
\* payload of that session.
C37_CompletedAtIsStable ==
  /\ []CompletedAtIffCompleted
  /\ [][/\ \A sid \in DOMAIN sessions \cap DOMAIN sessions' :
              CompletedAt(sessions, sid) # NoneId =>
                 CompletedAt(sessions', sid) = CompletedAt(sessions, sid)
        /\ (out'.kind = "complete" /\ out'.sid \in DOMAIN sessions
              /\ CompletedAt(sessions, out'.sid) # NoneId) =>
              out'.completed_at = CompletedAt(sessions, out'.sid)]_vars

\* the requests of session sid that are suspended at an await
InFlightFor(sid) == {rq \in DOMAIN inflight : rq.sid = sid}

\* C38: a session in WAITING_FOR_ANSWER with no request of its own in flight
\* has as its current question the question the source issued last for it,
\* whatever the order in which the answers of the source arrived.
C38_CurrentQuestionIsLatestIssued ==
  \A sid \in DOMAIN sessions :
     (sessions[sid].state = WAITING_FOR_ANSWER /\ InFlightFor(sid) = {}) =>
        /\ remote_q[sid] # <<>>
        /\ sessions[sid].current_question_id = remote_q[sid][Len(remote_q[sid])]

\* a question response of the endpoints that wait for the video
SyncQuestion(o) == o.kind = "question" /\ o.op \in SyncOps

\* C39: in the synchronous question response avatar_mode is video exactly when
\* video_url is non-null; a response without a video is audio_only and
\* carries the presenter image; and the step that answers after the video
\* generation, failed or not, leaves the session registry (state and current
\* question id) as it was.
C39_SyncResponseDegradesToAudio ==
  [][SyncQuestion(out') =>
        /\ (out'.avatar_mode = VIDEO) <=> (out'.video_url # NULL)
        /\ out'.video_url = NULL =>
              out'.avatar_mode = AUDIO_ONLY /\ out'.avatar_image_url # NULL
        /\ out'.from = "avatar" => sessions' = sessions]_vars

\* the video generation failed: the answer is audio_only with the presenter
\* image, and the session still waits for the answer to that question
C39_Witness ==
  /\ SyncQuestion(out)
  /\ out.from = "avatar"
  /\ out.avatar_mode = AUDIO_ONLY
  /\ out.video_url = NULL
  /\ out.avatar_image_url # NULL
  /\ out.sid \in DOMAIN sessions
  /\ sessions[out.sid].state = WAITING_FOR_ANSWER
  /\ sessions[out.sid].current_question_id = out.question_id

====
